---- MODULE Spec2Model ----
(***************************************************************************)
(* A model of geometric_algebra.py: the MultiVector class and the two      *)
(* canonicalisation routines simplify_element and simplify_blades.         *)
(*                                                                         *)
(* A basis element is a sequence of integers, a blade is the pair          *)
(* <<coefficient, element>> (Python's [x, e]) and a blade list is a        *)
(* sequence of blades.  Python positions are 0-based: the cursor i of the  *)
(* source is kept as it is and position i is read as s[i + 1].             *)
(* Coefficients are Python ints.                                           *)
(***************************************************************************)
EXTENDS Integers, Sequences, FiniteSets, TLC

VARIABLES
    pc,         \* the call that is pending, or the one that has returned
    signature,  \* the signature of the multivectors in use (NoSignature: None)
    e,          \* the raw index sequence handed to simplify_element
    v,          \* the raw blade list handed to simplify_blades
    A, B, C,    \* multivector operands (their blade lists)
    num,        \* a number operand (Python int)
    res,        \* what the last call returned
    heap,       \* object store: the blade objects [x, e], by identity
    lists,      \* object store: the blade-list objects, each a sequence of blade identities
    mvs,        \* the MultiVector objects built so far: the identity of each one's .blades
    caller      \* identities of the lists the caller built and passed to the constructor

vars == <<pc, signature, e, v, A, B, C, num, res, heap, lists, mvs, caller>>

(***************************************************************************)
(* Bounds of the model.                                                    *)
(***************************************************************************)
MaxLen == 4      \* longest raw index sequence given to simplify_element
MaxIdx == 3      \* raw index sequences use the basis indices 1..MaxIdx
MaxBlades == 3   \* longest raw blade list given to simplify_blades
MaxRawCoef == 1  \* coefficients of that raw blade list range over -MaxRawCoef..MaxRawCoef

NoSignature == << >>
None == "None"

(***************************************************************************)
(* Sequence helpers: list.pop(i), the swap of two neighbours, list order.  *)
(***************************************************************************)
Pop(s, i) == [k \in 1..(Len(s) - 1) |-> IF k <= i THEN s[k] ELSE s[k + 1]]

SwapNext(s, i) ==
    [k \in 1..Len(s) |-> IF k = i + 1 THEN s[i + 2] ELSE IF k = i + 2 THEN s[i + 1] ELSE s[k]]

Min2(a, b) == IF a < b THEN a ELSE b

\* Python's  a > b  of two lists of ints: the first differing position decides,
\* and a proper prefix is the smaller list.
ListGreater(a, b) ==
    LET diff == {k \in 1..Min2(Len(a), Len(b)) : a[k] # b[k]}
    IN  IF diff = {} THEN Len(a) > Len(b)
        ELSE LET k == CHOOSE k \in diff : \A j \in diff : k <= j IN a[k] > b[k]

\* line 178: (len(a), a) > (len(b), b)
KeyGreaterLengthOnly(a, b) == Len(a) > Len(b)
KeyGreater(a, b) ==
    IF Len(a) # Len(b) THEN Len(a) > Len(b) ELSE ListGreater(a, b)

(***************************************************************************)
(* simplify_element                                                        *)
(***************************************************************************)
\* line 200-201: the square of the contracted vector, when there is a signature
ContractFactor(factor, sig, idx) ==
    IF sig # NoSignature THEN factor * sig[idx] ELSE factor

\* line 206: perpendicular vectors anticommute
SwapFactorKept(factor) == factor
SwapFactor(factor) == -factor

\* lines 210-211: step back, unless at the start, to keep comparing this element
StepBackForgotten(i) == i
StepBack(i) == IF i > 0 THEN i - 1 ELSE i

RECURSIVE simplify_element_loop(_, _, _, _)
simplify_element_loop(el, i, factor, sig) ==
    IF ~(i < Len(el) - 1) THEN [elem |-> el, factor |-> factor]
    ELSE IF el[i + 1] = el[i + 2]
         THEN simplify_element_loop(Pop(Pop(el, i), i), i,
                                    ContractFactor(factor, sig, el[i + 1]), sig)
    ELSE IF el[i + 1] > el[i + 2]
         THEN simplify_element_loop(SwapNext(el, i), StepBack(i), SwapFactor(factor), sig)
    ELSE simplify_element_loop(el, i + 1, factor, sig)

simplify_element(el, sig) == simplify_element_loop(el, 0, 1, sig)

(***************************************************************************)
(* Specification SpecElem: one call of simplify_element on a raw sequence. *)
(***************************************************************************)
Indices == 1..MaxIdx
Squares == {-1, 0, 1}

RECURSIVE SeqsUpTo(_, _)
SeqsUpTo(S, n) ==
    IF n = 0 THEN {<< >>}
    ELSE LET shorter == SeqsUpTo(S, n - 1)
         IN  shorter \cup {Append(s, a) : s \in {t \in shorter : Len(t) = n - 1}, a \in S}

RawElements == SeqsUpTo(Indices, MaxLen)
ElemSignatures == {NoSignature} \cup [Indices -> Squares]

Idle ==
    /\ A = << >> /\ B = << >> /\ C = << >> /\ num = 0
    /\ heap = << >> /\ lists = << >> /\ mvs = << >> /\ caller = {}

InitElem ==
    /\ pc = "simplify_element"
    /\ signature \in ElemSignatures
    /\ e \in RawElements
    /\ v = << >>
    /\ res = None
    /\ Idle

CallSimplifyElement ==
    /\ pc = "simplify_element"
    /\ res' = simplify_element(e, signature)
    /\ pc' = "simplify_element_done"
    /\ UNCHANGED <<signature, e, v, A, B, C, num, heap, lists, mvs, caller>>

NextElem == CallSimplifyElement

SpecElem == InitElem /\ [][NextElem]_vars

\* strictly ascending (so duplicate-free)
IsCanonicalElement(el) == \A k \in 1..(Len(el) - 1) : el[k] < el[k + 1]

Occurrences(el, a) == Cardinality({k \in 1..Len(el) : el[k] = a})
OddIndices(el) == {a \in {el[k] : k \in 1..Len(el)} : Occurrences(el, a) % 2 = 1}
ElemSet(el) == {el[k] : k \in 1..Len(el)}

IsDuplicateFree(el) == \A j, k \in 1..Len(el) : j # k => el[j] # el[k]
Inversions(el) == Cardinality({p \in (1..Len(el)) \X (1..Len(el)) : p[1] < p[2] /\ el[p[1]] > el[p[2]]})
PermutationSign(el) == IF Inversions(el) % 2 = 0 THEN 1 ELSE -1

\* C1: simplify_element returns, for every raw sequence and signature, a strictly
\* ascending element holding exactly the indices that occur an odd number of
\* times in the input.
C1_ElementCanonical ==
    pc = "simplify_element_done" =>
        /\ IsCanonicalElement(res.elem)
        /\ ElemSet(res.elem) = OddIndices(e)

\* C2: on a duplicate-free sequence simplify_element returns the sequence sorted
\* ascending together with the sign of the permutation, whatever the signature.
C2_PermutationSign ==
    (pc = "simplify_element_done" /\ IsDuplicateFree(e)) =>
        /\ IsCanonicalElement(res.elem)
        /\ ElemSet(res.elem) = ElemSet(e)
        /\ Len(res.elem) = Len(e)
        /\ res.factor = PermutationSign(e)

C2_Witness ==
    /\ pc = "simplify_element_done"
    /\ e = <<3, 1, 2>>
    /\ signature # NoSignature /\ signature[1] = 0
    /\ res = [elem |-> <<1, 2, 3>>, factor |-> 1]

(***************************************************************************)
(* simplify_blades.  The source edits the list it is given in place, so    *)
(* the loop works on a list object (a sequence of blade identities) and on *)
(* the store H of the blade objects: v.pop(i) and the swap change the      *)
(* list, v[i][0] += v[i+1][0] changes the blade object v[i].               *)
(***************************************************************************)
\* line 176: v[i][0] += v[i+1][0]
MergeCoefOverwrite(x, y) == y
MergeCoef(x, y) == x + y

\* lines 171-172 and 181-182: step back unless at the start
BladesStepBackForgotten(i) == i
BladesStepBack(i) == IF i > 0 THEN i - 1 ELSE i

RECURSIVE simplify_blades_loop(_, _, _)
simplify_blades_loop(L, H, i) ==
    IF ~(i < Len(L)) THEN [list |-> L, heap |-> H]
    ELSE IF H[L[i + 1]][1] = 0
         THEN simplify_blades_loop(Pop(L, i), H, BladesStepBack(i))
    ELSE IF i + 1 >= Len(L) THEN [list |-> L, heap |-> H]
    ELSE IF H[L[i + 1]][2] = H[L[i + 2]][2]
         THEN simplify_blades_loop(
                  Pop(L, i + 1),
                  [H EXCEPT ![L[i + 1]] = <<MergeCoef(H[L[i + 1]][1], H[L[i + 2]][1]), @[2]>>],
                  i)
    ELSE IF KeyGreater(H[L[i + 1]][2], H[L[i + 2]][2])
         THEN simplify_blades_loop(SwapNext(L, i), H, BladesStepBack(i))
    ELSE simplify_blades_loop(L, H, i + 1)

\* The value returned for a list of distinct blade objects holding the blades bl.
simplify_blades(bl) ==
    LET r == simplify_blades_loop([k \in 1..Len(bl) |-> k], bl, 0)
    IN  [k \in 1..Len(r.list) |-> r.heap[r.list[k]]]

(***************************************************************************)
(* Specification SpecBlades: one call of simplify_blades on a raw list.    *)
(***************************************************************************)
\* Elements of the raw blades: the constructor takes any index list as an element.
BladeElements == {<< >>, <<1>>, <<2>>, <<1, 2>>, <<2, 1>>}
RawBlades == {<<x, el>> : x \in (-MaxRawCoef)..MaxRawCoef, el \in BladeElements}

InitBlades ==
    /\ pc = "simplify_blades"
    /\ signature = NoSignature
    /\ e = << >>
    /\ v \in SeqsUpTo(RawBlades, MaxBlades)
    /\ res = None
    /\ Idle

CallSimplifyBlades ==
    /\ pc = "simplify_blades"
    /\ res' = simplify_blades(v)
    /\ pc' = "simplify_blades_done"
    /\ UNCHANGED <<signature, e, v, A, B, C, num, heap, lists, mvs, caller>>

NextBlades == CallSimplifyBlades

SpecBlades == InitBlades /\ [][NextBlades]_vars

RECURSIVE CoefSumFrom(_, _, _)
CoefSumFrom(bl, el, k) ==
    IF k > Len(bl) THEN 0
    ELSE (IF bl[k][2] = el THEN bl[k][1] ELSE 0) + CoefSumFrom(bl, el, k + 1)
\* the sum of the coefficients of the blades of bl whose element is el
CoefSum(bl, el) == CoefSumFrom(bl, el, 1)

BladeElems(bl) == {bl[k][2] : k \in 1..Len(bl)}

\* no zero coefficient, strictly ascending by (length, element): so no element twice
IsSimplified(bl) ==
    /\ \A k \in 1..Len(bl) : bl[k][1] # 0
    /\ \A k \in 1..(Len(bl) - 1) : KeyGreater(bl[k + 1][2], bl[k][2])

\* C3: simplify_blades yields one blade per distinct element whose coefficients
\* sum to a nonzero value, with that sum, no zero coefficient, and the blades
\* strictly ascending by (element length, element).
C3_BladesSimplified ==
    pc = "simplify_blades_done" =>
        /\ IsSimplified(res)
        /\ BladeElems(res) = {el \in BladeElems(v) : CoefSum(v, el) # 0}
        /\ \A k \in 1..Len(res) : res[k][1] = CoefSum(v, res[k][2])

C3_Witness ==
    /\ pc = "simplify_blades_done"
    /\ Len(v) = MaxBlades
    /\ \E j, k \in 1..Len(v) : j < k /\ KeyGreater(v[j][2], v[k][2])
    /\ \E j, k \in 1..Len(v) : j + 1 < k /\ v[j][2] = v[k][2] /\ v[j][1] + v[k][1] = 0 /\ v[j][1] # 0
    /\ Len(res) = 1

(***************************************************************************)
(* MultiVector.  A multivector is its blade list; the signature is the one *)
(* of the behaviour (every operand of a call has it, lines 18, 45, 66).    *)
(***************************************************************************)
\* __init__ (line 15)
MultiVector(blades) == simplify_blades(blades)

\* a number used as an operand: v_blades = [[v, []]]  (lines 20, 47)
ScalarBlades(x) == << <<x, << >>>> >>

\* __add__: the copies of both blade lists, concatenated
Add(a, b) == MultiVector(a \o b)
AddScalar(a, x) == MultiVector(a \o ScalarBlades(x))

\* __neg__
Neg(a) == MultiVector([k \in 1..Len(a) |-> <<-a[k][1], a[k][2]>>])

\* __sub__: self + -v
Sub(a, b) == Add(a, Neg(b))

\* the loop of __mul__: self's blades outside, v's blades inside
ProductTerms(a, b, sig) ==
    [k \in 1..(Len(a) * Len(b)) |->
        LET x  == a[((k - 1) \div Len(b)) + 1]
            y  == b[((k - 1) % Len(b)) + 1]
            se == simplify_element(x[2] \o y[2], sig)
        IN  <<se.factor * x[1] * y[1], se.elem>>]

\* __mul__
Mul(a, b, sig) == MultiVector(ProductTerms(a, b, sig))
\* __mul__ with a number, and __rmul__
MulScalar(a, x, sig) == Mul(a, ScalarBlades(x), sig)

\* line 101: the blade changes sign when (len(e) // 2) % 2 == 1
ReverseSignGradeParity(r) == IF r % 2 = 1 THEN -1 ELSE 1
ReverseSign(r) == IF (r \div 2) % 2 = 1 THEN -1 ELSE 1

\* reverse
Reverse(a) == MultiVector([k \in 1..Len(a) |-> <<ReverseSign(Len(a[k][2])) * a[k][1], a[k][2]>>])

\* __getitem__: the grade projection
GetItem(a, r) == MultiVector(SelectSeq(a, LAMBDA bl : Len(bl[2]) = r))

\* __float__: the number, or ValueError
Float(a) ==
    IF a = << >> THEN [raised |-> None, val |-> 0]
    ELSE IF Len(a) = 1 /\ a[1][2] = << >> THEN [raised |-> None, val |-> a[1][1]]
    ELSE [raised |-> "ValueError: Cannot convert to float", val |-> 0]

\* __eq__ of two multivectors of one signature
Eq(a, b) == a = b

(***************************************************************************)
(* basis, is_last, next_element.                                           *)
(***************************************************************************)
\* lines 268-272: the dict of a signature given as (p, q) or (p, q, r)
SignatureDict(sigTuple, start) ==
    LET n_pos  == sigTuple[1]
        n_neg  == sigTuple[2]
        n_null == IF Len(sigTuple) = 3 THEN sigTuple[3] ELSE 0
    IN  [i \in start..(start + n_pos + n_neg + n_null - 1) |->
            IF i - start < n_pos THEN 1
            ELSE IF i - start < n_pos + n_neg THEN -1
            ELSE 0]

is_last(el, n, start) ==
    el = [k \in 1..Len(el) |-> start + n - Len(el) + (k - 1)]

next_element(el, n, start) ==
    IF is_last(el, n, start)
    THEN IF Len(el) < n THEN [k \in 1..(Len(el) + 1) |-> start + (k - 1)] ELSE None
    ELSE LET \* the last 0-based position that does not hold its maximum value
             notMax == {p \in 0..(Len(el) - 1) : el[p + 1] # start + n - 1 - (Len(el) - 1 - p)}
             pos    == CHOOSE p \in notMax : \A q \in notMax : q <= p
         IN  [k \in 1..Len(el) |->
                 IF k - 1 < pos THEN el[k]
                 ELSE el[pos + 1] + 1 + (k - 1 - pos)]

\* lines 276-281: the elements, from [] until next_element returns None
\* next_element returns None exactly for the last element of all (line 295)
NextIsNone(el, n, start) == is_last(el, n, start) /\ ~(Len(el) < n)

RECURSIVE elements_from(_, _, _)
elements_from(el, n, start) ==
    IF NextIsNone(el, n, start) THEN <<el>>
    ELSE <<el>> \o elements_from(next_element(el, n, start), n, start)

\* the multivectors basis() returns, for a signature dict with n vectors from start
basis(n, start) ==
    LET elements == elements_from(<< >>, n, start)
    IN  [k \in 1..Len(elements) |-> MultiVector(<< <<1, elements[k]>> >>)]

(***************************************************************************)
(* Specification SpecLaws: three multivectors of one signature, and the    *)
(* two sides of an algebraic law computed from them.                       *)
(***************************************************************************)
MaxTotal == 5    \* most blades of the three operands of SpecLaws together

\* Signatures of the operands: None (as in test.py, every square +1), and the
\* dict basis() builds from (0, 1, 1): e1 * e1 = -1, e2 * e2 = 0.
LawSignatures == {NoSignature, SignatureDict(<<0, 1, 1>>, 1)}

\* The canonical elements over the vectors of a signature (over e1, e2 without one).
ElementsOf(sig) ==
    LET els == IF sig = NoSignature THEN elements_from(<< >>, 2, 1)
               ELSE elements_from(<< >>, Cardinality(DOMAIN sig),
                                  CHOOSE i \in DOMAIN sig : \A j \in DOMAIN sig : i <= j)
    IN  {els[k] : k \in 1..Len(els)}

LawCoefs == {-1, 1}

\* the lists of at most n blades of S with the elements strictly ascending by key
RECURSIVE AscendingLists(_, _)
AscendingLists(S, n) ==
    IF n = 0 THEN {<< >>}
    ELSE LET shorter == AscendingLists(S, n - 1)
         IN  shorter \cup
             UNION {{Append(s, bl) : bl \in {c \in S : \A k \in 1..(n - 1) : KeyGreater(c[2], s[k][2])}} :
                    s \in {t \in shorter : Len(t) = n - 1}}

\* MultiVector(blades) for the lists of at most n blades on distinct elements
Operands(sig, n) ==
    {MultiVector(bl) : bl \in AscendingLists(LawCoefs \X ElementsOf(sig), n)}

InitLaws ==
    /\ pc = "operands"
    /\ signature \in LawSignatures
    /\ A \in Operands(signature, MaxTotal)
    /\ B \in Operands(signature, MaxTotal - Len(A))
    /\ C \in Operands(signature, MaxTotal - Len(A) - Len(B))
    /\ e = << >> /\ v = << >>
    /\ res = None /\ num = 0
    /\ heap = << >> /\ lists = << >> /\ mvs = << >> /\ caller = {}

\* (A * B) * C  and  A * (B * C)
MulAssoc ==
    /\ pc = "operands"
    /\ res' = [lhs |-> Mul(Mul(A, B, signature), C, signature),
               rhs |-> Mul(A, Mul(B, C, signature), signature)]
    /\ pc' = "mul_assoc"
    /\ UNCHANGED <<signature, e, v, A, B, C, num, heap, lists, mvs, caller>>

\* A * (B + C)  and  A * B + A * C
MulDistrib ==
    /\ pc = "operands"
    /\ res' = [lhs |-> Mul(A, Add(B, C), signature),
               rhs |-> Add(Mul(A, B, signature), Mul(A, C, signature))]
    /\ pc' = "mul_distrib"
    /\ UNCHANGED <<signature, e, v, A, B, C, num, heap, lists, mvs, caller>>

\* A + B, B + A, (A + B) + C  and  A + (B + C)
AddLaws ==
    /\ pc = "operands"
    /\ res' = [ab |-> Add(A, B), ba |-> Add(B, A),
               lhs |-> Add(Add(A, B), C), rhs |-> Add(A, Add(B, C))]
    /\ pc' = "add_laws"
    /\ UNCHANGED <<signature, e, v, A, B, C, num, heap, lists, mvs, caller>>

NextLaws == MulAssoc \/ MulDistrib \/ AddLaws

SpecLaws == InitLaws /\ [][NextLaws]_vars

\* C4: the geometric product is associative on multivectors of one signature
\* whose elements are canonical.
C4_MulAssociative == pc = "mul_assoc" => Eq(res.lhs, res.rhs)

\* C5: the geometric product distributes over addition, also when terms of B and
\* C merge or cancel in B + C.
C5_MulDistributes == pc = "mul_distrib" => Eq(res.lhs, res.rhs)

\* C6: addition is commutative and associative.
C6_AddCommAssoc == pc = "add_laws" => (Eq(res.ab, res.ba) /\ Eq(res.lhs, res.rhs))

C4_Witness ==
    /\ pc = "mul_assoc"
    /\ signature # NoSignature
    /\ Len(A) = 2 /\ Len(B) = 2 /\ Len(C) = 1
    /\ Mul(A, B, signature) # Mul(B, A, signature)
    /\ Len(Mul(A, B, signature)) \in {1, 2, 3}
    /\ res.lhs # << >>

C5_Witness ==
    /\ pc = "mul_distrib"
    /\ Len(A) = 2 /\ Len(B) = 2 /\ Len(C) = 1
    /\ Len(Add(B, C)) = 1
    /\ signature # NoSignature
    /\ Len(Mul(A, B, signature)) = 3
    /\ Len(res.lhs) = 2

C6_Witness ==
    /\ pc = "add_laws"
    /\ Len(A) = 2 /\ Len(B) = 2 /\ Len(C) = 1
    /\ A \o B # B \o A
    /\ ~IsSimplified(A \o B)
    /\ Len(res.ab) = 1 /\ Len(res.lhs) = 2

(***************************************************************************)
(* Specification SpecReverse: reverse() of a multivector, and of the       *)
(* result.                                                                 *)
(***************************************************************************)
MaxGrade == 4      \* number of basis vectors of SpecReverse: grades 0..MaxGrade
MaxRevTerms == 2   \* most blades of the multivector reversed

RevSignatures == {NoSignature, SignatureDict(<<1, 1, MaxGrade - 2>>, 1)}
RevElements ==
    LET els == elements_from(<< >>, MaxGrade, 1) IN {els[k] : k \in 1..Len(els)}
RevCoefs == {-1, 2}

InitReverse ==
    /\ pc = "operand"
    /\ signature \in RevSignatures
    /\ A \in {MultiVector(bl) : bl \in AscendingLists(RevCoefs \X RevElements, MaxRevTerms)}
    /\ B = << >> /\ C = << >> /\ num = 0
    /\ e = << >> /\ v = << >>
    /\ res = None
    /\ heap = << >> /\ lists = << >> /\ mvs = << >> /\ caller = {}

CallReverse ==
    /\ pc = "operand"
    /\ res' = [r |-> Reverse(A), rr |-> Reverse(Reverse(A))]
    /\ pc' = "reverse"
    /\ UNCHANGED <<signature, e, v, A, B, C, num, heap, lists, mvs, caller>>

NextReverse == CallReverse

SpecReverse == InitReverse /\ [][NextReverse]_vars

ReverseSeq(s) == [k \in 1..Len(s) |-> s[Len(s) + 1 - k]]
\* (-1)^(r(r-1)/2)
ReversionSign(r) == IF ((r * (r - 1)) \div 2) % 2 = 0 THEN 1 ELSE -1

\* C9: reverse multiplies the coefficient of each blade of grade r by
\* (-1)^(r(r-1)/2), the factor simplify_element gives for the blade's indices in
\* reversed order, keeps the elements and their order, and is an involution.
C9_ReverseInvolution ==
    pc = "reverse" =>
        /\ Len(res.r) = Len(A)
        /\ \A k \in 1..Len(A) :
              /\ res.r[k][2] = A[k][2]
              /\ res.r[k][1] = ReversionSign(Len(A[k][2])) * A[k][1]
              /\ res.r[k][1] = simplify_element(ReverseSeq(A[k][2]), signature).factor * A[k][1]
        /\ Eq(res.rr, A)

C9_Witness ==
    /\ pc = "reverse"
    /\ Len(A) = 2
    /\ Len(A[1][2]) = 3 /\ Len(A[2][2]) = 4
    /\ res.r[1][1] = -A[1][1] /\ res.r[2][1] = A[2][1]
    /\ res.rr = A

(***************************************************************************)
(* Specification SpecSession: a multivector A that starts as one of the    *)
(* multivectors basis() returns and is replaced, call after call, by the   *)
(* result of an operation on it.  The other operand of a binary operation  *)
(* is a basis multivector, A itself, its reverse or one of its grades.     *)
(***************************************************************************)
MaxCoef == 2     \* SpecSession keeps the results with coefficients in -MaxCoef..MaxCoef

\* signatures given to basis() as (p, q) or (p, q, r), and its start argument
SessionSignatures == {<<1, 1>>, <<1, 0, 1>>}
Starts == {0, 1}
Scalars == {-1, 0, 2}

NVectors(sig) == Cardinality(DOMAIN sig)
StartOf(sig) == CHOOSE i \in DOMAIN sig : \A j \in DOMAIN sig : i <= j
BasisOf(sig) ==
    LET b == basis(NVectors(sig), StartOf(sig)) IN {b[k] : k \in 1..Len(b)}

Operand(a, sig) ==
    BasisOf(sig) \cup {a, Reverse(a)} \cup {GetItem(a, r) : r \in 0..NVectors(sig)}

Abs(x) == IF x < 0 THEN -x ELSE x
InRange(a) == \A k \in 1..Len(a) : Abs(a[k][1]) <= MaxCoef

InitSession ==
    /\ pc = "basis"
    /\ signature \in {SignatureDict(t, start) : t \in SessionSignatures, start \in Starts}
    /\ A \in BasisOf(signature)
    /\ B = << >> /\ C = << >> /\ num = 0
    /\ e = << >> /\ v = << >>
    /\ res = None
    /\ heap = << >> /\ lists = << >> /\ mvs = << >> /\ caller = {}

Becomes(a) ==
    /\ InRange(a)
    /\ A' = a
    /\ pc' = "result"
    /\ UNCHANGED <<signature, e, v, B, C, num, res, heap, lists, mvs, caller>>

SessAdd == \E o \in Operand(A, signature) : Becomes(Add(A, o))
\* A + x and x + A (__radd__ is self + v)
SessAddScalar == \E x \in Scalars : Becomes(AddScalar(A, x))
SessSub == \E o \in Operand(A, signature) : Becomes(Sub(A, o))
\* x - A (__rsub__ is v + -self)
SessRSub == \E x \in Scalars : Becomes(AddScalar(Neg(A), x))
SessNeg == Becomes(Neg(A))
SessMul ==
    \E o \in Operand(A, signature) :
        \/ Becomes(Mul(A, o, signature))
        \/ Becomes(Mul(o, A, signature))
\* A * x and x * A (__rmul__ is self * v)
SessScalarMul == \E x \in Scalars : Becomes(MulScalar(A, x, signature))
SessReverse == Becomes(Reverse(A))
SessGetItem == \E r \in 0..NVectors(signature) : Becomes(GetItem(A, r))

NextSession ==
    \/ SessAdd \/ SessAddScalar \/ SessSub \/ SessRSub \/ SessNeg
    \/ SessMul \/ SessScalarMul \/ SessReverse \/ SessGetItem

SpecSession == InitSession /\ [][NextSession]_vars

IsCanonicalMultiVector(a) ==
    /\ IsSimplified(a)
    /\ \A k \in 1..Len(a) : IsCanonicalElement(a[k][2])

\* C10: every multivector reached from the ones basis() returns by add, subtract,
\* negate, multiply, scalar multiply, reverse and grade projection is in canonical
\* form: ascending duplicate-free elements, no element twice, no zero coefficient,
\* blades ordered by (element length, element).
C10_CanonicalReached == IsCanonicalMultiVector(A)

C10_Witness ==
    /\ pc = "result"
    /\ Len(A) = 4
    /\ \E i \in DOMAIN signature : signature[i] = 0
    /\ \E k \in 1..Len(A) : A[k][1] = -2
    /\ IsCanonicalMultiVector(A)

(***************************************************************************)
(* Division.  A call returns a value or raises: raised is None or the      *)
(* exception.  Coefficients are ints in the model, so 1/v is taken only of *)
(* the numbers whose reciprocal is one: 1 and -1 (and of 0, which raises). *)
(***************************************************************************)
ZeroDivisionError == "ZeroDivisionError"
NoInverseError == "ValueError: Multivector has no inverse"

Returned(val) == [raised |-> None, val |-> val]
Raised(exc) == [raised |-> exc, val |-> << >>]

\* 1/v for v in {1, -1}
Reciprocal(x) == CHOOSE q \in {-1, 1} : q * x = 1

\* __truediv__ by a number (lines 62-64): 1/v raises ZeroDivisionError for v = 0
TrueDivNumber(a, x, sig) ==
    IF x = 0 THEN Raised(ZeroDivisionError)
    ELSE Returned(Mul(a, MultiVector(<< <<Reciprocal(x), << >>>> >>), sig))

\* lines 68-70 and 77-79: r / float(self * r); only ValueError is caught (72, 81)
Inverse(b, sig) ==
    LET v_r     == Reverse(b)
        v_norm2 == Float(Mul(b, v_r, sig))
    IN  IF v_norm2.raised # None THEN Raised(NoInverseError)
        ELSE TrueDivNumber(v_r, v_norm2.val, sig)

\* __truediv__ by a multivector (lines 66-73)
TrueDiv(a, b, sig) ==
    LET v_inv == Inverse(b, sig)
    IN  IF v_inv.raised # None THEN v_inv ELSE Returned(Mul(a, v_inv.val, sig))

\* __rtruediv__: number / multivector (lines 75-82)
RTrueDiv(b, x, sig) ==
    LET inv == Inverse(b, sig)
    IN  IF inv.raised # None THEN inv ELSE Returned(MulScalar(inv.val, x, sig))

(***************************************************************************)
(* Specification SpecDiv: one division A / B, A / num or num / B.          *)
(***************************************************************************)
MaxDivTerms == 2   \* most blades of the divisor B

DivSignatures == {NoSignature, SignatureDict(<<1, 0, 1>>, 1)}
Numbers == {-1, 0, 1}

\* the divisors whose norm B * reverse(B), when a number, has an int reciprocal
IntegralNorm(b, sig) ==
    LET n2 == Float(Mul(b, Reverse(b), sig))
    IN  n2.raised # None \/ n2.val \in {-1, 0, 1}

InitDiv ==
    /\ pc = "operands"
    /\ signature \in DivSignatures
    /\ A \in Operands(signature, 1)
    /\ B \in {b \in Operands(signature, MaxDivTerms) : IntegralNorm(b, signature)}
    /\ num \in Numbers
    /\ C = << >>
    /\ e = << >> /\ v = << >>
    /\ res = None
    /\ heap = << >> /\ lists = << >> /\ mvs = << >> /\ caller = {}

CallTrueDiv ==
    /\ pc = "operands"
    /\ res' = TrueDiv(A, B, signature)
    /\ pc' = "truediv"
    /\ UNCHANGED <<signature, e, v, A, B, C, num, heap, lists, mvs, caller>>

CallTrueDivNumber ==
    /\ pc = "operands"
    /\ res' = TrueDivNumber(A, num, signature)
    /\ pc' = "truediv_number"
    /\ UNCHANGED <<signature, e, v, A, B, C, num, heap, lists, mvs, caller>>

CallRTrueDiv ==
    /\ pc = "operands"
    /\ res' = RTrueDiv(B, num, signature)
    /\ pc' = "rtruediv"
    /\ UNCHANGED <<signature, e, v, A, B, C, num, heap, lists, mvs, caller>>

NextDiv == CallTrueDiv \/ CallTrueDivNumber \/ CallRTrueDiv

SpecDiv == InitDiv /\ [][NextDiv]_vars

\* B * reverse(B) is zero, or is not a number
NotInvertible(b, sig) ==
    LET n == Mul(b, Reverse(b), sig)
    IN  n = << >> \/ ~(Len(n) = 1 /\ n[1][2] = << >>)

\* C7: a division whose divisor cannot be inverted (the number 0, a blade of null
\* square, B * reverse(B) zero or not a number) always raises 'Multivector has
\* no inverse': it returns no value and raises nothing else.
C7_NoInverseRaised ==
    /\ (pc \in {"truediv", "rtruediv"} /\ NotInvertible(B, signature)) =>
           res.raised = NoInverseError
    /\ (pc = "truediv_number" /\ num = 0) => res.raised = NoInverseError

(***************************************************************************)
(* Specification SpecHeap: the objects behind the multivectors.  heap      *)
(* holds the blade objects [x, e] and lists the blade-list objects, both   *)
(* by identity (the position in the store); mvs[m] is the identity of the  *)
(* list that MultiVector m has as .blades.  The caller builds raw lists    *)
(* and passes them to the constructor; every operation allocates what the  *)
(* source allocates and shares what the source shares.                     *)
(***************************************************************************)
MaxHeap == 4     \* most blade objects allocated
MaxLists == 3    \* most blade-list objects allocated
MaxRaw == 2      \* longest raw list the caller builds
MaxMVs == 3      \* most MultiVector objects built

HeapRawBlades == {<<x, el>> : x \in {0, 1}, el \in {<< >>, <<1>>}}

InitHeap ==
    /\ pc = "heap"
    /\ signature = NoSignature
    /\ heap = << >> /\ lists = << >> /\ mvs = << >> /\ caller = {}
    /\ A = << >> /\ B = << >> /\ C = << >> /\ num = 0
    /\ e = << >> /\ v = << >>
    /\ res = None

\* the blades of MultiVector m, read through its list
BladesOf(m) == [k \in 1..Len(lists[mvs[m]]) |-> heap[lists[mvs[m]][k]]]

\* The caller writes a list literal: a new list of new blade objects.
CallerBuildsList ==
    \E raw \in SeqsUpTo(HeapRawBlades, MaxRaw) :
        /\ raw # << >>
        /\ Len(heap) + Len(raw) <= MaxHeap
        /\ Len(lists) < MaxLists
        /\ heap' = heap \o raw
        /\ lists' = Append(lists, [k \in 1..Len(raw) |-> Len(heap) + k])
        /\ caller' = caller \cup {Len(lists) + 1}
        /\ UNCHANGED <<pc, signature, e, v, A, B, C, num, res, mvs>>

\* MultiVector(blades) on a list of the caller (lines 12-15): simplify_blades
\* edits that list in place and the multivector keeps it.
Construct ==
    \E l \in caller :
        LET r == simplify_blades_loop(lists[l], heap, 0)
        IN  /\ Len(mvs) < MaxMVs
            /\ heap' = r.heap
            /\ lists' = [lists EXCEPT ![l] = r.list]
            /\ mvs' = Append(mvs, l)
            /\ UNCHANGED <<pc, signature, e, v, A, B, C, num, res, caller>>

\* MultiVector(...) on a list of new blade objects holding vals: the list and the
\* blades are new, simplify_blades edits them in place.
BuildFresh(vals) ==
    LET r == simplify_blades_loop([k \in 1..Len(vals) |-> Len(heap) + k], heap \o vals, 0)
    IN  /\ Len(heap) + Len(vals) <= MaxHeap
        /\ Len(lists) < MaxLists
        /\ Len(mvs) < MaxMVs
        /\ heap' = r.heap
        /\ lists' = Append(lists, r.list)
        /\ mvs' = Append(mvs, Len(lists) + 1)
        /\ UNCHANGED <<pc, signature, e, v, A, B, C, num, res, caller>>

Negated(bl) == [k \in 1..Len(bl) |-> <<-bl[k][1], bl[k][2]>>]

\* __add__ (lines 22-23): blade.copy() of every blade of both operands
HeapAdd == \E m1, m2 \in 1..Len(mvs) : BuildFresh(BladesOf(m1) \o BladesOf(m2))
\* __neg__ (lines 30-35): copies, negated
HeapNeg == \E m \in 1..Len(mvs) : BuildFresh(Negated(BladesOf(m)))
\* __sub__ (line 38): self + -v; -v is simplified as it is built
HeapSub ==
    \E m1, m2 \in 1..Len(mvs) :
        BuildFresh(BladesOf(m1) \o simplify_blades(Negated(BladesOf(m2))))
\* __mul__ (lines 49-55): new blades [factor * x * y, elem]
HeapMul ==
    \E m1, m2 \in 1..Len(mvs) : BuildFresh(ProductTerms(BladesOf(m1), BladesOf(m2), signature))
\* reverse (lines 97-104): copies
HeapReverse ==
    \E m \in 1..Len(mvs) :
        BuildFresh([k \in 1..Len(BladesOf(m)) |->
                       <<ReverseSign(Len(BladesOf(m)[k][2])) * BladesOf(m)[k][1], BladesOf(m)[k][2]>>])

\* __getitem__ (lines 136-137): a new list of the SAME blade objects, handed to
\* the constructor.
HeapGetItem ==
    \E m \in 1..Len(mvs), r \in 0..1 :
        LET kept == SelectSeq(lists[mvs[m]], LAMBDA b : Len(heap[b][2]) = r)
            s    == simplify_blades_loop(kept, heap, 0)
        IN  /\ Len(lists) < MaxLists
            /\ Len(mvs) < MaxMVs
            /\ heap' = s.heap
            /\ lists' = Append(lists, s.list)
            /\ mvs' = Append(mvs, Len(lists) + 1)
            /\ UNCHANGED <<pc, signature, e, v, A, B, C, num, res, caller>>

NextHeap ==
    \/ CallerBuildsList \/ Construct
    \/ HeapAdd \/ HeapNeg \/ HeapSub \/ HeapMul \/ HeapReverse \/ HeapGetItem

SpecHeap == InitHeap /\ [][NextHeap]_vars

\* a step leaves every list and every blade object that existed as it was
ExistingUnchanged ==
    /\ \A l \in 1..Len(lists) : lists'[l] = lists[l]
    /\ \A b \in 1..Len(heap) : heap'[b] = heap[b]

ListBlades(l) == {lists[l][k] : k \in 1..Len(lists[l])}

\* no two multivectors, and no multivector and caller's list, are or share an object
NothingShared ==
    /\ \A m1, m2 \in 1..Len(mvs) :
          m1 # m2 => (mvs[m1] # mvs[m2] /\ ListBlades(mvs[m1]) \cap ListBlades(mvs[m2]) = {})
    /\ \A m \in 1..Len(mvs) : \A l \in caller :
          mvs[m] # l /\ ListBlades(mvs[m]) \cap ListBlades(l) = {}

\* C8: no call changes a blade list or a multivector that existed before it (the
\* list passed to the constructor included), and no multivector shares a blade
\* entry with another multivector or with a list of the caller.
C8_Isolated == [][ExistingUnchanged /\ NothingShared']_vars
====
